---- MODULE Spec2Model ----
(***************************************************************************)
(* Model of backend/server.py: the FastAPI edge proxy in front of the      *)
(* TypeScript backend.  Four parts are modelled here:                      *)
(*   - the WebSocket relay handlers websocket_proxy_api (/api/ws) and      *)
(*     websocket_proxy_root (/ws) with their two pumps forward_to_backend  *)
(*     and forward_to_client;                                              *)
(*   - the HTTP forwarder proxy_api;                                       *)
(*   - lifespan: its startup half with start_ts_backend (the launch of the *)
(*     child process and the readiness probe) and its shutdown half        *)
(*     (terminate, wait, kill, client.close);                              *)
(*   - the local handlers health (GET /api/health) and root (GET /).       *)
(* The httpx.AsyncClient objects the forwarder, health and the probe open   *)
(* are counted where they are opened and closed.                           *)
(* Every await of the source is a point where the environment (the client, *)
(* the backend) may act, so each action below runs from one await to the   *)
(* next.                                                                   *)
(***************************************************************************)
EXTENDS Integers, Sequences, FiniteSets, TLC

\* ------------------------------------------------------------------ bounds
\* Text messages each peer of a relay session sends at most.
MaxMsgs == 2

\* Payloads of the text messages.
Msgs == {"m1", "m2"}

VARIABLES
    \* ---- a WebSocket relay session (one handler invocation)
    wsPc,        \* where the handler is: idle, connecting, pumping, releasing, done
    wsPath,      \* the path of the handler that accepted the session
    wsBackendUrl,\* the outbound URL the handler connected to ("" before)
    wsOps,       \* the handler's socket operations, in order
    cliSock,     \* inbound socket: none, open, client_closed, relay_closed
    bkSock,      \* outbound socket: none, open, backend_closed, relay_closed
    cliIn,       \* text messages the client sent, not yet read by the relay
    bkIn,        \* text messages the backend sent, not yet read by the relay
    c2bPc,       \* forward_to_backend: off, recv, send, done
    c2bMsg,      \* the message forward_to_backend holds
    b2cPc,       \* forward_to_client: off, recv, send, done
    b2cMsg,      \* the message forward_to_client holds
    c2bRead,     \* what forward_to_backend read from the client socket
    c2bWritten,  \* what forward_to_backend wrote to the backend socket
    b2cRead,     \* what forward_to_client read from the backend socket
    b2cWritten   \* what forward_to_client wrote to the client socket

wsVars == <<wsPc, wsPath, wsBackendUrl, wsOps, cliSock, bkSock, cliIn, bkIn,
            c2bPc, c2bMsg, b2cPc, b2cMsg, c2bRead, c2bWritten, b2cRead, b2cWritten>>

\* ---- one call of the HTTP forwarder proxy_api
VARIABLES
    fwdPc,       \* idle, body (await request.body()), sending and waiting (await
                 \* http_client.request), returned (a response went to the
                 \* client), raised (an exception left the handler)
    req,         \* the inbound request, until the backend took the outbound one
    call,        \* method, path and raw query string of the current or last call
    url,         \* local url
    headers,     \* local headers (a dict: pairs in insertion order, keys unique)
    body,        \* local body
    bodyRead,    \* whether request.body() was awaited in this call
    upstream,    \* the outbound request handed to http_client.request
    attempts,    \* outbound requests issued in this call
    fwdClients,  \* httpx.AsyncClient objects of proxy_api that are open
    target,      \* the URL of the last outbound request of this call
    outcome,     \* how http_client.request ended: "response" or an exception class
    bkResp,      \* the backend's raw response
    resp,        \* the response the handler returned
    raisedExc,   \* the exception that left the handler
    prev         \* an earlier call and how it ended, kept for comparison

fwdVars == <<fwdPc, req, call, url, headers, body, bodyRead, upstream, attempts, fwdClients,
             target, outcome, bkResp, resp, raisedExc, prev>>

\* ---- the lifespan of the application and the child process it supervises
VARIABLES
    lifePc,        \* init, sleep (await asyncio.sleep(1)), probe (await
                   \* http_client.get), started (start_ts_backend returned),
                   \* serving (after yield), failed (startup raised),
                   \* stopping (ts_process.wait(timeout=5)), stopped
    ts_process,    \* global ts_process: None or the Popen handle
    child,         \* the child process: none, starting, ready, exited
    spawns,        \* subprocess.Popen calls that created a process
    i,             \* loop variable of start_ts_backend
    sleeps,        \* asyncio.sleep(1) calls that completed in the probe loop
    probeAttempts, \* health requests issued by the probe loop
    probeClients,  \* httpx.AsyncClient objects of the probe loop that are open
    lastProbe,     \* how the last health request ended: a status or an exception
    readyAt,       \* the probe cycle during which the child became ready (0: none)
    waitLogs,      \* "Still waiting ..." lines logged
    probeResult,   \* what start_ts_backend returned: None, "True" or "False"
    startupExc     \* the exception that left the startup half of lifespan

lifeVars == <<lifePc, ts_process, child, spawns, i, sleeps, probeAttempts, probeClients,
              lastProbe, readyAt, waitLogs, probeResult, startupExc>>

\* ---- the shutdown half of lifespan
VARIABLES
    stops,         \* times the shutdown entered its if ts_process: branch
    childAtStop,   \* the state of the child process when the shutdown began
    signals,       \* the signals the child process was sent, in order
    waitEnd,       \* how ts_process.wait(timeout=5) ended: None, "returned",
                   \* "TimeoutExpired"
    dbClosed       \* client.close() was called

stopVars == <<stops, childAtStop, signals, waitEnd, dbClosed>>

\* ---- the handlers health (GET /api/health) and root (GET /)
VARIABLES
    healthPc,      \* idle, waiting (await http_client.get), returned
    healthAttempts,\* outbound requests issued by the current call of health
    healthClients, \* httpx.AsyncClient objects of health that are open
    lastHealth,    \* how the outbound health request ended
    healthResp,    \* the response health returned
    rootResp       \* the response root returned

localVars == <<healthPc, healthAttempts, healthClients, lastHealth, healthResp, rootResp>>

vars == <<wsVars, fwdVars, lifeVars, stopVars, localVars>>

\* app = FastAPI(lifespan=lifespan): the server routes a request or a WebSocket
\* to a handler only between the end of the startup half of lifespan (the
\* yield) and the shutdown.
Serving == lifePc = "serving"

\* The child process holds the port: a connection to it can be set up.
BackendListening == child \in {"starting", "ready"}

NoMsg == "<none>"

IsPrefix(s, t) == Len(s) <= Len(t) /\ SubSeq(t, 1, Len(s)) = s

\* ------------------------------------------------------------ relay: Init
WsInit ==
    /\ wsPc = "idle"
    /\ wsPath = ""
    /\ wsBackendUrl = ""
    /\ wsOps = <<>>
    /\ cliSock = "none"
    /\ bkSock = "none"
    /\ cliIn = <<>>
    /\ bkIn = <<>>
    /\ c2bPc = "off"
    /\ c2bMsg = NoMsg
    /\ b2cPc = "off"
    /\ b2cMsg = NoMsg
    /\ c2bRead = <<>>
    /\ c2bWritten = <<>>
    /\ b2cRead = <<>>
    /\ b2cWritten = <<>>

\* ----------------------------------------------------- relay: the handler
\* WsBackendUrl with the URL of /api/ws in both handlers.
MutWsBackendUrl(p) == "ws://127.0.0.1:8002/api/ws"

\* f"ws://127.0.0.1:8002/api/ws" and f"ws://127.0.0.1:8002/ws".
WsBackendUrl(p) == "ws://127.0.0.1:8002" \o p

\* await websocket.accept()
WsAccept(p) ==
    /\ Serving
    /\ wsPc = "idle"
    /\ wsPc' = "connecting"
    /\ wsPath' = p
    /\ cliSock' = "open"
    /\ wsOps' = Append(wsOps, "accept")
    /\ UNCHANGED <<fwdVars, lifeVars, stopVars, localVars>>
    /\ UNCHANGED <<wsBackendUrl, bkSock, cliIn, bkIn, c2bPc, c2bMsg, b2cPc, b2cMsg,
                   c2bRead, c2bWritten, b2cRead, b2cWritten>>

\* The finally block: await websocket.close() inside try/except: pass.  On a
\* socket the client already closed the call raises and the exception is
\* swallowed; either way the handler returns.
CloseInbound(sock) == IF sock = "open" THEN "relay_closed" ELSE sock

\* async with websockets.connect(url) entered: the two pumps are created and
\* asyncio.gather starts both.
WsConnectOk(p) ==
    /\ wsPc = "connecting"
    /\ BackendListening
    /\ wsPath = p
    /\ wsPc' = "pumping"
    /\ wsBackendUrl' = WsBackendUrl(p)
    /\ bkSock' = "open"
    /\ c2bPc' = "recv"
    /\ b2cPc' = "recv"
    /\ wsOps' = Append(wsOps, "connect")
    /\ UNCHANGED <<fwdVars, lifeVars, stopVars, localVars>>
    /\ UNCHANGED <<wsPath, cliSock, cliIn, bkIn, c2bMsg, b2cMsg,
                   c2bRead, c2bWritten, b2cRead, b2cWritten>>

\* WsConnectFail without the finally block: the inbound socket is left open.
MutWsConnectFail(p) ==
    /\ wsPc = "connecting"
    /\ wsPath = p
    /\ wsPc' = "done"
    /\ wsBackendUrl' = WsBackendUrl(p)
    /\ wsOps' = wsOps \o <<"connect_failed">>
    /\ UNCHANGED <<fwdVars, lifeVars, stopVars, localVars>>
    /\ UNCHANGED <<wsPath, cliSock, bkSock, cliIn, bkIn, c2bPc, c2bMsg, b2cPc, b2cMsg,
                   c2bRead, c2bWritten, b2cRead, b2cWritten>>

\* websockets.connect raises: except Exception logs, finally closes the
\* inbound socket.  No await lies between the raise and the close call.
WsConnectFail(p) ==
    /\ wsPc = "connecting"
    /\ wsPath = p
    /\ wsPc' = "done"
    /\ wsBackendUrl' = WsBackendUrl(p)
    /\ cliSock' = CloseInbound(cliSock)
    /\ wsOps' = wsOps \o <<"connect_failed", "close">>
    /\ UNCHANGED <<fwdVars, lifeVars, stopVars, localVars>>
    /\ UNCHANGED <<wsPath, bkSock, cliIn, bkIn, c2bPc, c2bMsg, b2cPc, b2cMsg,
                   c2bRead, c2bWritten, b2cRead, b2cWritten>>

\* GatherDone returning as soon as either coroutine has ended.
MutGatherDone == c2bPc = "done" \/ b2cPc = "done"

\* await asyncio.gather(forward_to_backend(), forward_to_client()) returns:
\* gather waits for both coroutines; neither raises (each swallows Exception).
GatherDone == c2bPc = "done" /\ b2cPc = "done"

WsGatherReturn(p) ==
    /\ wsPc = "pumping"
    /\ wsPath = p
    /\ GatherDone
    /\ wsPc' = "releasing"
    /\ UNCHANGED <<fwdVars, lifeVars, stopVars, localVars>>
    /\ UNCHANGED <<wsPath, wsBackendUrl, wsOps, cliSock, bkSock, cliIn, bkIn,
                   c2bPc, c2bMsg, b2cPc, b2cMsg,
                   c2bRead, c2bWritten, b2cRead, b2cWritten>>

\* WsRelease closing the inbound socket before the outbound connection is
\* released.
MutWsRelease(p) ==
    /\ wsPc = "releasing"
    /\ wsPath = p
    /\ wsPc' = "done"
    /\ bkSock' = IF bkSock = "open" THEN "relay_closed" ELSE bkSock
    /\ cliSock' = CloseInbound(cliSock)
    /\ wsOps' = wsOps \o <<"close", "release">>
    /\ UNCHANGED <<fwdVars, lifeVars, stopVars, localVars>>
    /\ UNCHANGED <<wsPath, wsBackendUrl, cliIn, bkIn, c2bPc, c2bMsg, b2cPc, b2cMsg,
                   c2bRead, c2bWritten, b2cRead, b2cWritten>>

\* Leaving the async with closes the outbound connection; then the finally
\* block closes the inbound socket.
WsRelease(p) ==
    /\ wsPc = "releasing"
    /\ wsPath = p
    /\ wsPc' = "done"
    /\ bkSock' = IF bkSock = "open" THEN "relay_closed" ELSE bkSock
    /\ cliSock' = CloseInbound(cliSock)
    /\ wsOps' = wsOps \o <<"release", "close">>
    /\ UNCHANGED <<fwdVars, lifeVars, stopVars, localVars>>
    /\ UNCHANGED <<wsPath, wsBackendUrl, cliIn, bkIn, c2bPc, c2bMsg, b2cPc, b2cMsg,
                   c2bRead, c2bWritten, b2cRead, b2cWritten>>

\* ------------------------------------------------------- relay: the pumps
\* C2bRecv reading on while the message before is still to be sent.
MutC2bRecv ==
    /\ c2bPc \in {"recv", "send"}
    /\ cliIn # <<>>
    /\ c2bMsg' = Head(cliIn)
    /\ cliIn' = Tail(cliIn)
    /\ c2bRead' = Append(c2bRead, Head(cliIn))
    /\ c2bPc' = "send"
    /\ UNCHANGED <<fwdVars, lifeVars, stopVars, localVars>>
    /\ UNCHANGED <<wsPc, wsPath, wsBackendUrl, wsOps, cliSock, bkSock, bkIn,
                   b2cPc, b2cMsg, c2bWritten, b2cRead, b2cWritten>>

\* forward_to_backend: async for message in websocket.iter_text()
\* iter_text ends on the client's disconnect; queued messages come first.
C2bRecv ==
    /\ c2bPc = "recv"
    /\ \/ /\ cliIn # <<>>
          /\ c2bMsg' = Head(cliIn)
          /\ cliIn' = Tail(cliIn)
          /\ c2bRead' = Append(c2bRead, Head(cliIn))
          /\ c2bPc' = "send"
       \/ /\ cliIn = <<>>
          /\ cliSock = "client_closed"
          /\ c2bPc' = "done"
          /\ UNCHANGED <<c2bMsg, cliIn, c2bRead>>
    /\ UNCHANGED <<fwdVars, lifeVars, stopVars, localVars>>
    /\ UNCHANGED <<wsPc, wsPath, wsBackendUrl, wsOps, cliSock, bkSock, bkIn,
                   b2cPc, b2cMsg, c2bWritten, b2cRead, b2cWritten>>

\* C2bPayload sending a fixed frame instead of the message read.
MutC2bPayload(m) == "m1"

\* The payload forward_to_backend hands to ws_backend.send.
C2bPayload(m) == m

\* await ws_backend.send(message); on a closed connection send raises and
\* except Exception: pass ends the pump.
C2bSend ==
    /\ c2bPc = "send"
    /\ \/ /\ bkSock = "open"
          /\ c2bWritten' = Append(c2bWritten, C2bPayload(c2bMsg))
          /\ c2bPc' = "recv"
       \/ /\ bkSock # "open"
          /\ c2bPc' = "done"
          /\ UNCHANGED c2bWritten
    /\ c2bMsg' = NoMsg
    /\ UNCHANGED <<fwdVars, lifeVars, stopVars, localVars>>
    /\ UNCHANGED <<wsPc, wsPath, wsBackendUrl, wsOps, cliSock, bkSock, cliIn, bkIn,
                   b2cPc, b2cMsg, c2bRead, b2cRead, b2cWritten>>

forward_to_backend == C2bRecv \/ C2bSend

\* forward_to_client: async for message in ws_backend
\* the iteration ends when the backend closed; received messages come first.
B2cRecv ==
    /\ b2cPc = "recv"
    /\ \/ /\ bkIn # <<>>
          /\ b2cMsg' = Head(bkIn)
          /\ bkIn' = Tail(bkIn)
          /\ b2cRead' = Append(b2cRead, Head(bkIn))
          /\ b2cPc' = "send"
       \/ /\ bkIn = <<>>
          /\ bkSock = "backend_closed"
          /\ b2cPc' = "done"
          /\ UNCHANGED <<b2cMsg, bkIn, b2cRead>>
    /\ UNCHANGED <<fwdVars, lifeVars, stopVars, localVars>>
    /\ UNCHANGED <<wsPc, wsPath, wsBackendUrl, wsOps, cliSock, bkSock, cliIn,
                   c2bPc, c2bMsg, c2bRead, c2bWritten, b2cWritten>>

\* The payload forward_to_client hands to websocket.send_text.
B2cPayload(m) == m

\* await websocket.send_text(message).  After the client disconnected the
\* ASGI server either raises (the pump ends) or drops the frame silently
\* (the pump goes on): both are built behaviours, so both are allowed.
B2cSend ==
    /\ b2cPc = "send"
    /\ \/ /\ cliSock = "open"
          /\ b2cWritten' = Append(b2cWritten, B2cPayload(b2cMsg))
          /\ b2cPc' = "recv"
       \/ /\ cliSock # "open"
          /\ b2cPc' \in {"done", "recv"}
          /\ UNCHANGED b2cWritten
    /\ b2cMsg' = NoMsg
    /\ UNCHANGED <<fwdVars, lifeVars, stopVars, localVars>>
    /\ UNCHANGED <<wsPc, wsPath, wsBackendUrl, wsOps, cliSock, bkSock, cliIn, bkIn,
                   c2bPc, c2bMsg, c2bRead, c2bWritten, b2cRead>>

forward_to_client == B2cRecv \/ B2cSend

\* ------------------------------------------------- relay: the environment
ClientSend ==
    /\ cliSock = "open"
    /\ Len(c2bRead) + Len(cliIn) < MaxMsgs
    /\ \E m \in Msgs : cliIn' = Append(cliIn, m)
    /\ UNCHANGED <<fwdVars, lifeVars, stopVars, localVars>>
    /\ UNCHANGED <<wsPc, wsPath, wsBackendUrl, wsOps, cliSock, bkSock, bkIn,
                   c2bPc, c2bMsg, b2cPc, b2cMsg,
                   c2bRead, c2bWritten, b2cRead, b2cWritten>>

ClientClose ==
    /\ cliSock = "open"
    /\ cliSock' = "client_closed"
    /\ UNCHANGED <<fwdVars, lifeVars, stopVars, localVars>>
    /\ UNCHANGED <<wsPc, wsPath, wsBackendUrl, wsOps, bkSock, cliIn, bkIn,
                   c2bPc, c2bMsg, b2cPc, b2cMsg,
                   c2bRead, c2bWritten, b2cRead, b2cWritten>>

BackendSend ==
    /\ bkSock = "open"
    /\ Len(b2cRead) + Len(bkIn) < MaxMsgs
    /\ \E m \in Msgs : bkIn' = Append(bkIn, m)
    /\ UNCHANGED <<fwdVars, lifeVars, stopVars, localVars>>
    /\ UNCHANGED <<wsPc, wsPath, wsBackendUrl, wsOps, cliSock, bkSock, cliIn,
                   c2bPc, c2bMsg, b2cPc, b2cMsg,
                   c2bRead, c2bWritten, b2cRead, b2cWritten>>

BackendClose ==
    /\ bkSock = "open"
    /\ bkSock' = "backend_closed"
    /\ UNCHANGED <<fwdVars, lifeVars, stopVars, localVars>>
    /\ UNCHANGED <<wsPc, wsPath, wsBackendUrl, wsOps, cliSock, cliIn, bkIn,
                   c2bPc, c2bMsg, b2cPc, b2cMsg,
                   c2bRead, c2bWritten, b2cRead, b2cWritten>>

\* ------------------------------------------------ relay: the two handlers
\* One handler body, instantiated for each path as in the source.
WsHandler(p) ==
    \/ WsAccept(p)
    \/ WsConnectOk(p)
    \/ WsConnectFail(p)
    \/ WsGatherReturn(p)
    \/ WsRelease(p)

websocket_proxy_api == WsHandler("/api/ws")

\* websocket_proxy_root with a finally block that is missing after a failed
\* connect: a handler that is not the body of websocket_proxy_api.
MutWsProxyRoot ==
    \/ WsAccept("/ws")
    \/ WsConnectOk("/ws")
    \/ MutWsConnectFail("/ws")
    \/ WsGatherReturn("/ws")
    \/ WsRelease("/ws")

websocket_proxy_root == WsHandler("/ws")

\* What the event loop runs: the handlers and their pumps.
RelayStep ==
    \/ websocket_proxy_api
    \/ websocket_proxy_root
    \/ forward_to_backend
    \/ forward_to_client

\* What the peers do.
RelayEnv ==
    \/ ClientSend
    \/ ClientClose
    \/ BackendSend
    \/ BackendClose

RelayNext == RelayStep \/ RelayEnv

\* =================================================== the HTTP forwarder
\* ------------------------------------------------------------------ inputs
\* Headers a message carries at most.
MaxHdrs == 2

\* TS_BACKEND_URL, server.py:27.
TS_BACKEND_URL == "http://127.0.0.1:8002"

\* methods=[...] of the route, server.py:108.
Methods == {"GET", "POST", "PUT", "DELETE", "PATCH", "OPTIONS"}

\* Paths below /api/ a client asks for.
Paths == {"health", "fractal/v2"}

\* Raw query strings a client sends.
RawQueries == {"", "a=1", "flag"}

\* Inbound bodies; "" is a request without body bytes.
Bodies == {"", "b1"}

\* Header names as written on the wire, in the spellings peers use.
ReqHdrNames == {"Host", "content-length", "Transfer-Encoding", "accept", "Accept"}

RespHdrNames == {"Content-Encoding", "transfer-encoding", "Content-Length",
                 "host", "set-cookie"}

HdrValues == {"v1", "v2"}

\* Status codes and payloads the backend answers with.
BackendStatuses == {200, 201, 400, 503}

BackendContents == {"c1", "c2"}

\* Exceptions http_client.request raises.  ConnectError: the connection was
\* refused, reset while being set up, or could not be established.
HttpxErrors == {"ConnectError", "ConnectTimeout", "ReadTimeout", "ReadError",
                "RemoteProtocolError"}

HdrLists(names) ==
    UNION {[1..n -> names \X HdrValues] : n \in 0..MaxHdrs}

None == "<None>"

NoReq == [method |-> None]

NoResp == [status |-> 0]

NoPrev == [outcome |-> None]

NoCall == [method |-> None, path |-> None, query |-> None]

\* ---------------------------------------------------------------- helpers
\* str.lower() on the header names of the model.
LowerMap ==
    "Host" :> "host" @@ "Transfer-Encoding" :> "transfer-encoding" @@
    "Accept" :> "accept" @@ "Content-Encoding" :> "content-encoding" @@
    "Content-Length" :> "content-length"

Lower(k) == IF k \in DOMAIN LowerMap THEN LowerMap[k] ELSE k

\* d[k] = v on a Python dict: an existing key keeps its place and takes the
\* new value, a new key goes last.
DictSet(d, k, v) ==
    IF \E ix \in DOMAIN d : d[ix][1] = k
    THEN [ix \in DOMAIN d |-> IF d[ix][1] = k THEN <<k, v>> ELSE d[ix]]
    ELSE Append(d, <<k, v>>)

DictKeys(d) == {d[ix][1] : ix \in DOMAIN d}

\* request.headers.items(): every header line as (name, value), in order,
\* repeats included; names arrive lower-cased from the ASGI server.
RequestHeadersItems(raw) == [ix \in DOMAIN raw |-> <<Lower(raw[ix][1]), raw[ix][2]>>]

\* response.headers.items() of httpx: keys lower-cased, the values of a
\* repeated key joined with ", ".
RECURSIVE MergeItems(_, _)
MergeItems(raw, acc) ==
    IF raw = <<>> THEN acc
    ELSE LET k == Lower(Head(raw)[1])
             v == Head(raw)[2]
             old == CHOOSE ix \in DOMAIN acc : acc[ix][1] = k
         IN  MergeItems(Tail(raw),
                        IF k \in DictKeys(acc)
                        THEN DictSet(acc, k, acc[old][2] \o ", " \o v)
                        ELSE Append(acc, <<k, v>>))

ResponseHeadersItems(raw) == MergeItems(raw, <<>>)

\* ('host', 'content-length', 'transfer-encoding'), server.py:118.
ReqStripped == {"host", "content-length", "transfer-encoding"}

\* RespStripped without content-length.
MutRespStripped == {"content-encoding", "transfer-encoding"}

\* ('content-encoding', 'transfer-encoding', 'content-length'), server.py:137.
RespStripped == {"content-encoding", "transfer-encoding", "content-length"}

\* Both header filters: a dict filled in iteration order with the items
\* whose lower-cased key is not in deny.
RECURSIVE FilterInto(_, _, _)
FilterInto(items, deny, acc) ==
    IF items = <<>> THEN acc
    ELSE FilterInto(Tail(items), deny,
                    IF Lower(Head(items)[1]) \notin deny
                    THEN DictSet(acc, Head(items)[1], Head(items)[2])
                    ELSE acc)

\* headers = {k: v for k, v in request.headers.items() if k.lower() not in (...)}
FilterRequestHeaders(raw) == FilterInto(RequestHeadersItems(raw), ReqStripped, <<>>)

\* resp_headers = {}; for k, v in response.headers.items(): ...
FilterResponseHeaders(raw) == FilterInto(ResponseHeadersItems(raw), RespStripped, <<>>)

\* request.query_params: parse_qsl(query, keep_blank_values=True).
ParseQsl(q) ==
    CASE q = "" -> <<>>
      [] q = "a=1" -> << <<"a", "1">> >>
      [] q = "flag" -> << <<"flag", "">> >>

\* str(request.query_params): urlencode of the parsed pairs.
RECURSIVE UrlEncode(_)
UrlEncode(pairs) ==
    IF pairs = <<>> THEN ""
    ELSE Head(pairs)[1] \o "=" \o Head(pairs)[2]
         \o (IF Tail(pairs) = <<>> THEN "" ELSE "&" \o UrlEncode(Tail(pairs)))

\* url = f"{TS_BACKEND_URL}/api/{path}"; if request.query_params: url += "?" + ...
BuildUrl(path, query) ==
    LET base == TS_BACKEND_URL \o "/api/" \o path
        params == ParseQsl(query)
    IN  IF params # <<>> THEN base \o "?" \o UrlEncode(params) ELSE base

\* BodyMethods with DELETE taken for a body method.
MutBodyMethods == {"POST", "PUT", "PATCH", "DELETE"}

\* if request.method in ("POST", "PUT", "PATCH")
BodyMethods == {"POST", "PUT", "PATCH"}

\* response.headers.get('content-type')
HeaderGet(raw, name) ==
    IF \E ix \in DOMAIN raw : Lower(raw[ix][1]) = name
    THEN LET items == ResponseHeadersItems(raw)
         IN  items[CHOOSE ix \in DOMAIN items : items[ix][1] = name][2]
    ELSE None

\* The route decorators: @app.get("/api/health") is registered before the
\* catch-all /api/{path:path}, so GET /api/health never reaches proxy_api.
RoutedToProxy(m, path) == ~(m = "GET" /\ path = "health")

\* ErrorResponse with except Exception catching everything.
MutErrorResponse(exc, u) ==
    [status |-> 500, headers |-> <<>>, content |-> None,
     media_type |-> "application/json",
     json |-> [error |-> "Proxy error", detail |-> exc]]

\* The except clause a raised exception lands in: httpx.ConnectError first,
\* then Exception.
ErrorResponse(exc, u) ==
    IF exc = "ConnectError"
    THEN [status |-> 503, headers |-> <<>>, content |-> None,
          media_type |-> "application/json",
          json |-> [error |-> "TypeScript backend unavailable", url |-> u]]
    ELSE [status |-> 500, headers |-> <<>>, content |-> None,
          media_type |-> "application/json",
          json |-> [error |-> "Proxy error", detail |-> exc]]

\* ProxyResponse with a backend failure status answered as the proxy's own 500.
MutProxyResponse(r) ==
    [status |-> IF r.status >= 500 THEN 500 ELSE r.status,
     headers |-> FilterResponseHeaders(r.headers),
     content |-> r.content, media_type |-> HeaderGet(r.headers, "content-type"),
     json |-> None]

\* Response(content=response.content, status_code=response.status_code,
\* headers=resp_headers, media_type=...).  content is the body as
\* response.content gives it.
ProxyResponse(r) ==
    [status |-> r.status, headers |-> FilterResponseHeaders(r.headers),
     content |-> r.content, media_type |-> HeaderGet(r.headers, "content-type"),
     json |-> None]

\* ------------------------------------------------------------------- Init
FwdInit ==
    /\ fwdPc = "idle"
    /\ req = NoReq
    /\ call = NoCall
    /\ url = None
    /\ headers = None
    /\ body = None
    /\ bodyRead = FALSE
    /\ upstream = NoReq
    /\ attempts = 0
    /\ fwdClients = 0
    /\ target = None
    /\ outcome = None
    /\ bkResp = NoResp
    /\ resp = NoResp
    /\ raisedExc = None
    /\ prev = NoPrev

\* ---------------------------------------------------------------- actions
\* SendUpstream with the request sent a second time.
MutSendUpstream(m, u, h, b) ==
    /\ fwdPc' = "sending"
    /\ upstream' = [method |-> m, url |-> u, headers |-> h, content |-> b]
    /\ attempts' = attempts + 2
    /\ fwdClients' = fwdClients + 1
    /\ target' = u

\* async with httpx.AsyncClient(...): await http_client.request(method, url,
\* headers, content=body): the request goes out.
SendUpstream(m, u, h, b) ==
    /\ fwdPc' = "sending"
    /\ upstream' = [method |-> m, url |-> u, headers |-> h, content |-> b]
    /\ attempts' = attempts + 1
    /\ fwdClients' = fwdClients + 1
    /\ target' = u

\* FwdEnterFrom behind a readiness gate: no call is taken after a probe that
\* returned False.
MutFwdEnterFrom(H) ==
    /\ Serving
    /\ probeResult = "True"
    /\ fwdPc = "idle"
    /\ \E m \in Methods, p \in Paths, q \in RawQueries, h \in H, b \in Bodies :
          /\ RoutedToProxy(m, p)
          /\ req' = [method |-> m, path |-> p, query |-> q, headers |-> h, body |-> b]
          /\ call' = [method |-> m, path |-> p, query |-> q]
          /\ url' = BuildUrl(p, q)
          /\ headers' = FilterRequestHeaders(h)
          /\ body' = None
          /\ IF m \in BodyMethods
             THEN /\ fwdPc' = "body"
                  /\ UNCHANGED <<upstream, attempts, fwdClients, target>>
             ELSE SendUpstream(m, BuildUrl(p, q), FilterRequestHeaders(h), None)
    /\ UNCHANGED <<bodyRead, outcome, bkResp, resp, raisedExc>>
    /\ UNCHANGED <<wsVars, lifeVars, stopVars, localVars, prev>>

\* The handler is entered: url and headers are built; a body method then
\* awaits request.body(), any other method goes straight to the send.
FwdEnterFrom(H) ==
    /\ Serving
    /\ fwdPc = "idle"
    /\ \E m \in Methods, p \in Paths, q \in RawQueries, h \in H, b \in Bodies :
          /\ RoutedToProxy(m, p)
          /\ req' = [method |-> m, path |-> p, query |-> q, headers |-> h, body |-> b]
          /\ call' = [method |-> m, path |-> p, query |-> q]
          /\ url' = BuildUrl(p, q)
          /\ headers' = FilterRequestHeaders(h)
          /\ body' = None
          /\ IF m \in BodyMethods
             THEN /\ fwdPc' = "body"
                  /\ UNCHANGED <<upstream, attempts, fwdClients, target>>
             ELSE SendUpstream(m, BuildUrl(p, q), FilterRequestHeaders(h), None)
    /\ UNCHANGED <<bodyRead, outcome, bkResp, resp, raisedExc>>
    /\ UNCHANGED <<wsVars, lifeVars, stopVars, localVars, prev>>

FwdEnter == FwdEnterFrom(HdrLists(ReqHdrNames))

\* body = await request.body() returns the inbound body; the send follows.
FwdBodyRead ==
    /\ fwdPc = "body"
    /\ body' = req.body
    /\ bodyRead' = TRUE
    /\ SendUpstream(req.method, url, headers, req.body)
    /\ UNCHANGED <<req, call, url, headers, outcome, bkResp, resp, raisedExc>>
    /\ UNCHANGED <<wsVars, lifeVars, stopVars, localVars, prev>>

\* await request.body() raises ClientDisconnect when the client goes away
\* while the body is read.  The await stands before the try block.
FwdBodyDisconnect ==
    /\ fwdPc = "body"
    /\ bodyRead' = TRUE
    /\ fwdPc' = "raised"
    /\ raisedExc' = "ClientDisconnect"
    /\ req' = NoReq
    /\ url' = None
    /\ headers' = None
    /\ body' = None
    /\ UNCHANGED <<call, upstream, attempts, fwdClients, target, outcome, bkResp, resp>>
    /\ UNCHANGED <<wsVars, lifeVars, stopVars, localVars, prev>>

\* What the handler reads no more is dropped from the state: the inbound
\* request, headers and body are not read after the send (server.py:127-132).
FwdForget ==
    /\ req' = NoReq
    /\ headers' = None
    /\ body' = None
    /\ upstream' = NoReq

\* The connection to the backend is set up and the backend takes the request;
\* the handler stays in await http_client.request(...).
FwdBackendTakes ==
    /\ fwdPc = "sending"
    /\ BackendListening
    /\ fwdPc' = "waiting"
    /\ FwdForget
    /\ UNCHANGED <<call, url, bodyRead, attempts, fwdClients, target, outcome, bkResp, resp,
                   raisedExc>>
    /\ UNCHANGED <<wsVars, lifeVars, stopVars, localVars, prev>>

\* http_client.request raises before the backend got the request: the
\* connection cannot be set up (ConnectError) or its set-up times out.
ConnectErrors == {"ConnectError", "ConnectTimeout"}

\* FwdCatch answering by what an earlier call met: after a first failure every
\* failure is answered as a proxy error.
MutFwdCatch(e) ==
    /\ outcome' = e
    /\ resp' = ErrorResponse(IF prev # NoPrev THEN "Exception" ELSE e, url)
    /\ fwdPc' = "returned"
    /\ fwdClients' = fwdClients - 1
    /\ url' = None
    /\ FwdForget

\* try: ... except httpx.ConnectError: ... except Exception as e: ...
FwdCatch(e) ==
    /\ outcome' = e
    /\ resp' = ErrorResponse(e, url)
    /\ fwdPc' = "returned"
    /\ fwdClients' = fwdClients - 1
    /\ url' = None
    /\ FwdForget

\* Nothing listens on the port once the child process is gone: the connection
\* is refused at once, which httpx raises as ConnectError.
FwdConnectFails ==
    /\ fwdPc = "sending"
    /\ \E e \in (IF BackendListening THEN ConnectErrors ELSE {"ConnectError"}) :
          FwdCatch(e)
    /\ UNCHANGED <<call, bodyRead, attempts, target, bkResp, raisedExc>>
    /\ UNCHANGED <<wsVars, lifeVars, stopVars, localVars, prev>>

\* FwdReadFails with a client that stays open when the request raised.
MutFwdReadFails ==
    /\ fwdPc = "waiting"
    /\ \E e \in HttpxErrors \ ConnectErrors :
          /\ outcome' = e
          /\ resp' = ErrorResponse(e, url)
    /\ fwdPc' = "returned"
    /\ url' = None
    /\ FwdForget
    /\ UNCHANGED <<call, bodyRead, attempts, fwdClients, target, bkResp, raisedExc>>
    /\ UNCHANGED <<wsVars, lifeVars, stopVars, localVars, prev>>

\* http_client.request raises after the backend got the request: read
\* timeout, connection lost, malformed response.
FwdReadFails ==
    /\ fwdPc = "waiting"
    /\ \E e \in HttpxErrors \ ConnectErrors : FwdCatch(e)
    /\ UNCHANGED <<call, bodyRead, attempts, target, bkResp, raisedExc>>
    /\ UNCHANGED <<wsVars, lifeVars, stopVars, localVars, prev>>

\* The backend answers: the response headers are filtered and the Response is
\* returned.
FwdResponseFrom(H) ==
    /\ fwdPc = "waiting"
    /\ \E st \in BackendStatuses, h \in H, c \in BackendContents :
          /\ bkResp' = [status |-> st, headers |-> h, content |-> c]
          /\ resp' = ProxyResponse([status |-> st, headers |-> h, content |-> c])
    /\ outcome' = "response"
    /\ fwdPc' = "returned"
    /\ fwdClients' = fwdClients - 1
    /\ url' = None
    /\ FwdForget
    /\ UNCHANGED <<call, bodyRead, attempts, target, raisedExc>>
    /\ UNCHANGED <<wsVars, lifeVars, stopVars, localVars, prev>>

FwdResponse == FwdResponseFrom(HdrLists(RespHdrNames))

\* The next call starts from scratch: the handler keeps nothing.
FwdNextCall ==
    /\ fwdPc \in {"returned", "raised"}
    /\ fwdPc' = "idle"
    /\ UNCHANGED <<req, url, headers, body, upstream>>
    /\ call' = NoCall
    /\ bodyRead' = FALSE
    /\ attempts' = 0
    /\ UNCHANGED fwdClients
    /\ target' = None
    /\ outcome' = None
    /\ bkResp' = NoResp
    /\ resp' = NoResp
    /\ raisedExc' = None
    /\ UNCHANGED <<wsVars, lifeVars, stopVars, localVars, prev>>

proxy_api ==
    \/ FwdEnter
    \/ FwdBodyRead
    \/ FwdBodyDisconnect
    \/ FwdBackendTakes
    \/ FwdConnectFails
    \/ FwdReadFails
    \/ FwdResponse
    \/ FwdNextCall

\* ---- calls without headers, where only the call line and the backend vary
NoHeaders == {<<>>}

FwdEnterBare == FwdEnterFrom(NoHeaders)

FwdResponseBare == FwdResponseFrom(NoHeaders)

\* The first call is over and the next one starts from scratch, as in
\* FwdNextCall; what the first call was and how it ended is noted in prev.
FwdSecondCall ==
    /\ fwdPc = "returned"
    /\ prev = NoPrev
    /\ prev' = [call |-> call, outcome |-> outcome, bkResp |-> bkResp, resp |-> resp]
    /\ fwdPc' = "idle"
    /\ UNCHANGED <<req, url, headers, body, upstream>>
    /\ call' = NoCall
    /\ bodyRead' = FALSE
    /\ attempts' = 0
    /\ UNCHANGED fwdClients
    /\ target' = None
    /\ outcome' = None
    /\ bkResp' = NoResp
    /\ resp' = NoResp
    /\ raisedExc' = None
    /\ UNCHANGED <<wsVars, lifeVars, stopVars, localVars>>

proxy_api_bare ==
    \/ FwdEnterBare
    \/ FwdBodyRead
    \/ FwdBodyDisconnect
    \/ FwdBackendTakes
    \/ FwdConnectFails
    \/ FwdReadFails
    \/ FwdResponseBare
    \/ FwdNextCall

\* =========================================================== the lifespan
\* for i in range(45)
MaxAttempts == 45

\* What the backend's health endpoint answers: 200 once the child is ready,
\* another status (a success status without content, a redirect, a client
\* error, a server error) while it listens but is not ready.
ProbeStatuses == {200, 204, 302, 404, 503}

\* What subprocess.Popen or the open() of the log file raises.
LaunchErrors == {"FileNotFoundError", "PermissionError"}

\* What http_client.get raises: the connection is refused, or the attempt
\* hangs until the client's timeout of 2.0 s ends it.
ProbeErrors == {"ConnectError", "ReadTimeout"}

NoProbe == [status |-> 0, exc |-> None]

LifeInit ==
    /\ lifePc = "init"
    /\ ts_process = None
    /\ child = "none"
    /\ spawns = 0
    /\ i = 0
    /\ sleeps = 0
    /\ probeAttempts = 0
    /\ probeClients = 0
    /\ lastProbe = NoProbe
    /\ readyAt = 0
    /\ waitLogs = 0
    /\ probeResult = None
    /\ startupExc = None

\* SpawnOk run again while serving, when the child has exited.
MutSpawnOk ==
    /\ lifePc = "init" \/ (Serving /\ child = "exited")
    /\ ts_process' = "proc"
    /\ child' = "starting"
    /\ spawns' = spawns + 1
    /\ i' = 0
    /\ lifePc' = "sleep"
    /\ UNCHANGED <<sleeps, probeAttempts, probeClients, lastProbe, readyAt, waitLogs, probeResult,
                   startupExc>>
    /\ UNCHANGED <<wsVars, fwdVars, stopVars, localVars>>

\* lifespan awaits start_ts_backend(): Popen creates the child and the probe
\* loop starts with its first asyncio.sleep(1).
SpawnOk ==
    /\ lifePc = "init"
    /\ ts_process' = "proc"
    /\ child' = "starting"
    /\ spawns' = spawns + 1
    /\ i' = 0
    /\ lifePc' = "sleep"
    /\ UNCHANGED <<sleeps, probeAttempts, probeClients, lastProbe, readyAt, waitLogs, probeResult,
                   startupExc>>
    /\ UNCHANGED <<wsVars, fwdVars, stopVars, localVars>>

\* SpawnFails with the error swallowed: the probe loop starts without a child.
MutSpawnFails ==
    /\ lifePc = "init"
    /\ \E e \in LaunchErrors : startupExc' = e
    /\ lifePc' = "sleep"
    /\ UNCHANGED <<ts_process, child, spawns, i, sleeps, probeAttempts, probeClients, lastProbe,
                   readyAt, waitLogs, probeResult>>
    /\ UNCHANGED <<wsVars, fwdVars, stopVars, localVars>>

\* open() of the log file or Popen raises: nothing catches it in
\* start_ts_backend nor in lifespan, so the startup half of lifespan raises
\* and the server does not start.
SpawnFails ==
    /\ lifePc = "init"
    /\ \E e \in LaunchErrors : startupExc' = e
    /\ lifePc' = "failed"
    /\ UNCHANGED <<ts_process, child, spawns, i, sleeps, probeAttempts, probeClients, lastProbe,
                   readyAt, waitLogs, probeResult>>
    /\ UNCHANGED <<wsVars, fwdVars, stopVars, localVars>>

\* await asyncio.sleep(1) returns and the health request of this cycle goes out.
ProbeSleepDone ==
    /\ lifePc = "sleep"
    /\ sleeps' = sleeps + 1
    /\ probeAttempts' = probeAttempts + 1
    /\ probeClients' = probeClients + 1
    /\ lifePc' = "probe"
    /\ UNCHANGED <<ts_process, child, spawns, i, lastProbe, readyAt, waitLogs,
                   probeResult, startupExc>>
    /\ UNCHANGED <<wsVars, fwdVars, stopVars, localVars>>

\* ProbeContinue giving up one cycle early.
MutProbeContinue ==
    IF i + 1 < MaxAttempts - 1
    THEN /\ i' = i + 1
         /\ lifePc' = "sleep"
         /\ UNCHANGED probeResult
    ELSE /\ lifePc' = "started"
         /\ probeResult' = "False"
         /\ UNCHANGED i

\* ProbeContinue with the exhausted probe failing the startup.
MutProbeExhausted ==
    IF i + 1 < MaxAttempts
    THEN /\ i' = i + 1
         /\ lifePc' = "sleep"
         /\ UNCHANGED probeResult
    ELSE /\ lifePc' = "failed"
         /\ probeResult' = "False"
         /\ UNCHANGED i

\* The end of one pass of the loop body: the next i, or the loop is exhausted
\* and start_ts_backend returns False.
ProbeContinue ==
    IF i + 1 < MaxAttempts
    THEN /\ i' = i + 1
         /\ lifePc' = "sleep"
         /\ UNCHANGED probeResult
    ELSE /\ lifePc' = "started"
         /\ probeResult' = "False"
         /\ UNCHANGED i

\* ProbeOnStatus with every success status taken for ready.
MutProbeOnStatus(st) ==
    IF st >= 200 /\ st < 300
    THEN /\ lifePc' = "started"
         /\ probeResult' = "True"
         /\ UNCHANGED i
    ELSE ProbeContinue

\* ProbeOnStatus with a loop that notes the success and runs to its end.
MutProbeOnStatusLate(st) ==
    IF st = 200 /\ i + 1 >= MaxAttempts
    THEN /\ lifePc' = "started"
         /\ probeResult' = "True"
         /\ UNCHANGED i
    ELSE ProbeContinue

\* ProbeOnStatus giving up at the first answer that is not 200.
MutProbeOnStatusGiveUp(st) ==
    /\ lifePc' = "started"
    /\ probeResult' = IF st = 200 THEN "True" ELSE "False"
    /\ UNCHANGED i

\* What start_ts_backend does with a response of the health endpoint.
ProbeOnStatus(st) ==
    IF st = 200
    THEN /\ lifePc' = "started"
         /\ probeResult' = "True"
         /\ UNCHANGED i
    ELSE ProbeContinue

\* The health request is answered.
ProbeAnswer ==
    /\ lifePc = "probe"
    /\ BackendListening
    /\ \E st \in (IF child = "ready" THEN {200} ELSE ProbeStatuses \ {200}) :
          /\ lastProbe' = [status |-> st, exc |-> None]
          /\ ProbeOnStatus(st)
    /\ probeClients' = probeClients - 1
    /\ UNCHANGED <<ts_process, child, spawns, sleeps, probeAttempts, readyAt,
                   waitLogs, startupExc>>
    /\ UNCHANGED <<wsVars, fwdVars, stopVars, localVars>>

\* The bare except of the loop body: every tenth failure is logged, the loop
\* goes on.
ProbeOnException ==
    /\ waitLogs' = IF i % 10 = 9 THEN waitLogs + 1 ELSE waitLogs
    /\ ProbeContinue

\* The health request raises: nothing listens, or the attempt timed out.
ProbeRaises ==
    /\ lifePc = "probe"
    /\ child # "ready"
    /\ \E e \in (IF BackendListening THEN ProbeErrors ELSE {"ConnectError"}) :
          lastProbe' = [status |-> 0, exc |-> e]
    /\ ProbeOnException
    /\ probeClients' = probeClients - 1
    /\ UNCHANGED <<ts_process, child, spawns, sleeps, probeAttempts, readyAt,
                   startupExc>>
    /\ UNCHANGED <<wsVars, fwdVars, stopVars, localVars>>

start_ts_backend ==
    \/ SpawnOk
    \/ SpawnFails
    \/ ProbeSleepDone
    \/ ProbeAnswer
    \/ ProbeRaises

\* LifespanYield with start_ts_backend not awaited: lifespan yields at once.
MutLifespanYield ==
    /\ lifePc = "init"
    /\ lifePc' = "serving"
    /\ i' = 0
    /\ sleeps' = 0
    /\ probeAttempts' = 0
    /\ UNCHANGED probeClients
    /\ lastProbe' = NoProbe
    /\ readyAt' = 0
    /\ waitLogs' = 0
    /\ UNCHANGED <<ts_process, child, spawns, probeResult, startupExc>>
    /\ UNCHANGED <<wsVars, fwdVars, stopVars, localVars>>

\* await start_ts_backend() returned; its value is dropped and lifespan
\* yields: the application serves.  The locals of the call are gone.
LifespanYield ==
    /\ lifePc = "started"
    /\ lifePc' = "serving"
    /\ i' = 0
    /\ sleeps' = 0
    /\ probeAttempts' = 0
    /\ UNCHANGED probeClients
    /\ lastProbe' = NoProbe
    /\ readyAt' = 0
    /\ waitLogs' = 0
    /\ UNCHANGED <<ts_process, child, spawns, probeResult, startupExc>>
    /\ UNCHANGED <<wsVars, fwdVars, stopVars, localVars>>

\* ---- the shutdown half of lifespan
StopInit ==
    /\ stops = 0
    /\ childAtStop = None
    /\ signals = <<>>
    /\ waitEnd = None
    /\ dbClosed = FALSE

\* The ASGI server runs the shutdown half of lifespan when it stops, after
\* the handlers of the connections it had have returned.
NoHandlerRuns ==
    /\ fwdPc \in {"idle", "returned", "raised"}
    /\ wsPc \in {"idle", "done"}
    /\ healthPc \in {"idle", "returned"}

\* SendSignal without the poll: the signal goes out whatever the process did.
MutSendSignal(sig) == Append(signals, sig)

\* Popen.terminate() and Popen.kill() are Popen.send_signal(sig), which polls
\* the process first and sends nothing to a process that has exited.
SendSignal(sig) == IF child = "exited" THEN signals ELSE Append(signals, sig)

\* if ts_process: ts_process.terminate(), then ts_process.wait(timeout=5)
\* starts; without a handle client.close() follows at once.
ShutdownBegin ==
    /\ Serving
    /\ NoHandlerRuns
    /\ childAtStop' = child
    /\ IF ts_process # None
       THEN /\ stops' = stops + 1
            /\ signals' = SendSignal("TERM")
            /\ lifePc' = "stopping"
            /\ UNCHANGED dbClosed
       ELSE /\ dbClosed' = TRUE
            /\ lifePc' = "stopped"
            /\ UNCHANGED <<stops, signals>>
    /\ UNCHANGED waitEnd
    /\ UNCHANGED <<ts_process, child, spawns, i, sleeps, probeAttempts, probeClients,
                   lastProbe, readyAt,
                   waitLogs, probeResult, startupExc>>
    /\ UNCHANGED <<wsVars, fwdVars, localVars>>

\* ShutdownWaitReturns with the kill sent after every wait.
MutShutdownWaitReturns ==
    /\ lifePc = "stopping"
    /\ child = "exited"
    /\ waitEnd' = "returned"
    /\ signals' = Append(signals, "KILL")
    /\ dbClosed' = TRUE
    /\ lifePc' = "stopped"
    /\ UNCHANGED <<stops, childAtStop>>
    /\ UNCHANGED <<ts_process, child, spawns, i, sleeps, probeAttempts, probeClients,
                   lastProbe, readyAt,
                   waitLogs, probeResult, startupExc>>
    /\ UNCHANGED <<wsVars, fwdVars, localVars>>

\* ts_process.wait(timeout=5) returns: the child has exited.  client.close()
\* follows.
ShutdownWaitReturns ==
    /\ lifePc = "stopping"
    /\ child = "exited"
    /\ waitEnd' = "returned"
    /\ dbClosed' = TRUE
    /\ lifePc' = "stopped"
    /\ UNCHANGED <<stops, childAtStop, signals>>
    /\ UNCHANGED <<ts_process, child, spawns, i, sleeps, probeAttempts, probeClients,
                   lastProbe, readyAt,
                   waitLogs, probeResult, startupExc>>
    /\ UNCHANGED <<wsVars, fwdVars, localVars>>

\* ShutdownWaitTimesOut without the except clause: TimeoutExpired leaves
\* lifespan and client.close() is not reached.
MutShutdownWaitTimesOut ==
    /\ lifePc = "stopping"
    /\ child # "exited"
    /\ waitEnd' = "TimeoutExpired"
    /\ lifePc' = "stopped"
    /\ UNCHANGED <<stops, childAtStop, signals, dbClosed>>
    /\ UNCHANGED <<ts_process, child, spawns, i, sleeps, probeAttempts, probeClients,
                   lastProbe, readyAt,
                   waitLogs, probeResult, startupExc>>
    /\ UNCHANGED <<wsVars, fwdVars, localVars>>

\* ts_process.wait(timeout=5) raises TimeoutExpired: the child has not
\* exited; the bare except calls ts_process.kill().  client.close() follows.
ShutdownWaitTimesOut ==
    /\ lifePc = "stopping"
    /\ child # "exited"
    /\ waitEnd' = "TimeoutExpired"
    /\ signals' = SendSignal("KILL")
    /\ dbClosed' = TRUE
    /\ lifePc' = "stopped"
    /\ UNCHANGED <<stops, childAtStop>>
    /\ UNCHANGED <<ts_process, child, spawns, i, sleeps, probeAttempts, probeClients,
                   lastProbe, readyAt,
                   waitLogs, probeResult, startupExc>>
    /\ UNCHANGED <<wsVars, fwdVars, localVars>>

LifespanShutdown ==
    \/ ShutdownBegin
    \/ ShutdownWaitReturns
    \/ ShutdownWaitTimesOut

lifespan == start_ts_backend \/ LifespanYield \/ LifespanShutdown

\* ---- the child process
\* The backend finished its own start: its health endpoint answers 200 from
\* now on.  readyAt notes the probe cycle that is the first to see it.
ChildReady ==
    /\ child = "starting"
    /\ child' = "ready"
    /\ readyAt' = IF lifePc = "probe" THEN probeAttempts
                  ELSE IF lifePc = "sleep" THEN probeAttempts + 1
                  ELSE readyAt
    /\ UNCHANGED <<lifePc, ts_process, spawns, i, sleeps, probeAttempts, probeClients, lastProbe,
                   waitLogs, probeResult, startupExc>>
    /\ UNCHANGED <<wsVars, fwdVars, stopVars, localVars>>

\* ChildExit with a supervisor that starts the child process again.
MutChildExit ==
    /\ child \in {"starting", "ready"}
    /\ child' = "starting"
    /\ spawns' = spawns + 1
    /\ UNCHANGED <<lifePc, ts_process, i, sleeps, probeAttempts, probeClients, lastProbe,
                   readyAt, waitLogs, probeResult, startupExc>>
    /\ UNCHANGED <<wsVars, fwdVars, stopVars, localVars>>

\* The child process exits by itself.
ChildExit ==
    /\ child \in {"starting", "ready"}
    /\ child' = "exited"
    /\ UNCHANGED <<lifePc, ts_process, spawns, i, sleeps, probeAttempts, probeClients, lastProbe,
                   readyAt, waitLogs, probeResult, startupExc>>
    /\ UNCHANGED <<wsVars, fwdVars, stopVars, localVars>>

ChildEnv == ChildReady \/ ChildExit

\* ============================================ the handlers health and root
\* Bodies the backend's health endpoint answers with: a JSON document, or
\* something that is no JSON.
HealthBodies == {"{\"ok\": true}", "<html>"}

Parsable(b) == b = "{\"ok\": true}"

\* resp.json() of a parsable body.
JsonLoads(b) == [ok |-> TRUE]

\* str(e) of what health catches.
ExcStr(e) ==
    CASE e = "ConnectError" -> "All connection attempts failed"
      [] e = "ReadTimeout" -> ""
      [] e = "JSONDecodeError" -> "Expecting value: line 1 column 1 (char 0)"

NoHealth == [status |-> 0, exc |-> None, body |-> None]

LocalInit ==
    /\ healthPc = "idle"
    /\ healthAttempts = 0
    /\ healthClients = 0
    /\ lastHealth = NoHealth
    /\ healthResp = NoResp
    /\ rootResp = NoResp

\* HealthResponse with a failed backend reported as 503.
MutHealthResponse(ts_status) ==
    [status |-> IF "error" \in DOMAIN ts_status THEN 503 ELSE 200,
     body |-> [status |-> "ok", proxy |-> "python", ts_backend |-> ts_status]]

\* return {"status": "ok", "proxy": "python", "ts_backend": ts_status}
HealthResponse(ts_status) ==
    [status |-> 200,
     body |-> [status |-> "ok", proxy |-> "python", ts_backend |-> ts_status]]

\* HealthEnter waiting for the forwarder and the relay to be off the backend.
MutHealthEnter ==
    /\ Serving
    /\ healthPc = "idle"
    /\ fwdPc \notin {"sending", "waiting"}
    /\ wsPc # "pumping"
    /\ healthPc' = "waiting"
    /\ healthAttempts' = healthAttempts + 1
    /\ healthClients' = healthClients + 1
    /\ UNCHANGED <<lastHealth, healthResp, rootResp>>
    /\ UNCHANGED <<wsVars, fwdVars, lifeVars, stopVars>>

\* The handler is entered and its own request to the backend's health
\* endpoint goes out.
HealthEnter ==
    /\ Serving
    /\ healthPc = "idle"
    /\ healthPc' = "waiting"
    /\ healthAttempts' = healthAttempts + 1
    /\ healthClients' = healthClients + 1
    /\ UNCHANGED <<lastHealth, healthResp, rootResp>>
    /\ UNCHANGED <<wsVars, fwdVars, lifeVars, stopVars>>

\* ts_status = resp.json() if resp.status_code == 200 else {"error": ...};
\* resp.json() raising lands in except Exception like any other error.
HealthOnResponse(st, b) ==
    IF st = 200
    THEN IF Parsable(b) THEN JsonLoads(b) ELSE [error |-> ExcStr("JSONDecodeError")]
    ELSE [error |-> st]

\* The backend answers the health request.
HealthAnswer ==
    /\ healthPc = "waiting"
    /\ BackendListening
    /\ \E st \in (IF child = "ready" THEN {200} ELSE ProbeStatuses \ {200}),
          b \in HealthBodies :
          /\ lastHealth' = [status |-> st, exc |-> None, body |-> b]
          /\ healthResp' = HealthResponse(HealthOnResponse(st, b))
    /\ healthPc' = "returned"
    /\ healthClients' = healthClients - 1
    /\ UNCHANGED <<healthAttempts, rootResp>>
    /\ UNCHANGED <<wsVars, fwdVars, lifeVars, stopVars>>

\* except Exception as e: ts_status = {"error": str(e)}
HealthOnException(e) == [error |-> ExcStr(e)]

\* HealthRaises terminating a child that does not answer.
MutHealthRaises ==
    /\ healthPc = "waiting"
    /\ child # "ready"
    /\ \E e \in (IF BackendListening THEN ProbeErrors ELSE {"ConnectError"}) :
          /\ lastHealth' = [status |-> 0, exc |-> e, body |-> None]
          /\ healthResp' = HealthResponse(HealthOnException(e))
    /\ healthPc' = "returned"
    /\ healthClients' = healthClients - 1
    /\ signals' = Append(signals, "TERM")
    /\ UNCHANGED <<healthAttempts, rootResp>>
    /\ UNCHANGED <<stops, childAtStop, waitEnd, dbClosed>>
    /\ UNCHANGED <<wsVars, fwdVars, lifeVars>>

\* The health request raises: nothing listens, or the attempt timed out
\* (timeout=3.0).
HealthRaises ==
    /\ healthPc = "waiting"
    /\ child # "ready"
    /\ \E e \in (IF BackendListening THEN ProbeErrors ELSE {"ConnectError"}) :
          /\ lastHealth' = [status |-> 0, exc |-> e, body |-> None]
          /\ healthResp' = HealthResponse(HealthOnException(e))
    /\ healthPc' = "returned"
    /\ healthClients' = healthClients - 1
    /\ UNCHANGED <<healthAttempts, rootResp>>
    /\ UNCHANGED <<wsVars, fwdVars, lifeVars, stopVars>>

\* The next call of health starts from scratch.
HealthNextCall ==
    /\ healthPc = "returned"
    /\ healthPc' = "idle"
    /\ healthAttempts' = 0
    /\ UNCHANGED healthClients
    /\ lastHealth' = NoHealth
    /\ healthResp' = NoResp
    /\ UNCHANGED rootResp
    /\ UNCHANGED <<wsVars, fwdVars, lifeVars, stopVars>>

health ==
    \/ HealthEnter
    \/ HealthAnswer
    \/ HealthRaises
    \/ HealthNextCall

\* return {"message": "Fractal Platform API", "docs": "/docs"}
RootResponse ==
    [status |-> 200, body |-> [message |-> "Fractal Platform API", docs |-> "/docs"]]

\* root asking the backend's health endpoint on its way.
MutRoot ==
    /\ Serving
    /\ rootResp' = RootResponse
    /\ healthAttempts' = healthAttempts + 1
    /\ UNCHANGED healthClients
    /\ UNCHANGED <<healthPc, lastHealth, healthResp>>
    /\ UNCHANGED <<wsVars, fwdVars, lifeVars, stopVars>>

\* root has no await: entered and returned in one step.
root ==
    /\ Serving
    /\ rootResp' = RootResponse
    /\ UNCHANGED <<healthPc, healthAttempts, healthClients, lastHealth, healthResp>>
    /\ UNCHANGED <<wsVars, fwdVars, lifeVars, stopVars>>

\* The application while it serves, its startup behind it: the child was
\* ready at the first probe.
LifeServing ==
    /\ lifePc = "serving"
    /\ ts_process = "proc"
    /\ child = "ready"
    /\ spawns = 1
    /\ i = 0
    /\ sleeps = 0
    /\ probeAttempts = 0
    /\ probeClients = 0
    /\ lastProbe = NoProbe
    /\ readyAt = 0
    /\ waitLogs = 0
    /\ probeResult = "True"
    /\ startupExc = None

\* The application while it serves, in any of the states the startup and the
\* child process leave it in: the probe returned True and the child is ready
\* or has exited since, or the probe returned False and the child is starting,
\* ready or has exited.
LifeServingAny ==
    /\ lifePc = "serving"
    /\ ts_process = "proc"
    /\ spawns = 1
    /\ i = 0
    /\ sleeps = 0
    /\ probeAttempts = 0
    /\ probeClients = 0
    /\ lastProbe = NoProbe
    /\ readyAt = 0
    /\ waitLogs = 0
    /\ startupExc = None
    /\ \/ probeResult = "True" /\ child \in {"ready", "exited"}
       \/ probeResult = "False" /\ child \in {"starting", "ready", "exited"}

\* ========================================================= specifications
Init == WsInit /\ FwdInit /\ LifeInit /\ StopInit /\ LocalInit

InitServing == WsInit /\ FwdInit /\ LifeServing /\ StopInit /\ LocalInit

Next == RelayNext \/ proxy_api \/ lifespan \/ ChildEnv \/ health \/ root

Spec == Init /\ [][Next]_vars

\* A relay session by itself, in the serving application.
SpecRelay == InitServing /\ [][RelayNext]_vars

\* The event loop runs every ready coroutine; the peers owe nothing.
FairRelay == InitServing /\ [][RelayNext]_vars /\ WF_vars(RelayStep)

\* Calls of the forwarder by themselves, in the serving application.
SpecForward == InitServing /\ [][proxy_api]_vars

\* Two calls of the forwarder in a row, and more after them.
SpecForwardTwice == InitServing /\ [][proxy_api_bare \/ FwdSecondCall]_vars

\* Relay sessions in which no peer sends a message.
RelayQuiet ==
    \/ websocket_proxy_api
    \/ websocket_proxy_root
    \/ C2bRecv
    \/ B2cRecv
    \/ ClientClose
    \/ BackendClose

\* The application from its start: the startup, the child process, and the
\* traffic the server lets in, calls without headers and quiet sessions.
SpecEdge == Init /\ [][lifespan \/ ChildEnv \/ proxy_api_bare \/ RelayQuiet]_vars

\* The serving application: every handler next to the others, calls without
\* headers and quiet sessions, and a child process that may exit.
SpecServe ==
    InitServing /\ [][proxy_api_bare \/ RelayQuiet \/ health \/ root \/ ChildExit]_vars

\* The HTTP handlers of the serving application, whatever state the startup
\* left the child process in.
InitServe == WsInit /\ FwdInit /\ LifeServingAny /\ StopInit /\ LocalInit

SpecLocal == InitServe /\ [][proxy_api_bare \/ health \/ root \/ ChildEnv]_vars

\* The application from its start with its two HTTP handlers that ask the
\* backend: the startup, the child process, calls of the forwarder without
\* headers and calls of health, and the shutdown.
SpecSupervise == Init /\ [][lifespan \/ ChildEnv \/ proxy_api_bare \/ health]_vars

\* The startup of the application and the child process.
SpecStartup == Init /\ [][lifespan \/ ChildEnv]_vars

\* The event loop runs the startup; every await of it ends: the sleep after
\* one second, the health request with an answer, an error or its timeout.
FairStartup == Init /\ [][lifespan \/ ChildEnv]_vars /\ WF_vars(lifespan)

\* The startup, the child process and the shutdown; ts_process.wait(timeout=5)
\* ends within its five seconds, by the child's exit or by TimeoutExpired.
FairShutdown ==
    /\ Init
    /\ [][lifespan \/ ChildEnv]_vars
    /\ WF_vars(ShutdownWaitReturns \/ ShutdownWaitTimesOut)

\* ================================================================= claims
WsConnectFailed == \E ix \in DOMAIN wsOps : wsOps[ix] = "connect_failed"

\* C1: in an active relay session, once the backend has closed its side the
\* relay goes on by itself to close the client socket and stop the
\* client->backend pump: it never has to wait for the client to send or close.
C1_BackendCloseClosesClient ==
    (wsPc = "pumping" /\ bkSock = "backend_closed") => ENABLED RelayStep

\* C2: in an active relay session, once the client has closed the relay goes
\* on by itself to close the backend socket, stop the backend->client pump
\* and reach CLOSED: it never has to wait for the backend to send or close.
C2_ClientCloseClosesBackend ==
    (wsPc = "pumping" /\ cliSock = "client_closed") => ENABLED RelayStep

\* C3: after a failed outbound connect the session is CLOSED at once: no pump
\* was started, nothing was read or relayed in either direction, no outbound
\* socket exists and the inbound socket is closed.
C3_ConnectFailureClosesSession ==
    WsConnectFailed =>
        /\ wsPc = "done"
        /\ c2bPc = "off" /\ b2cPc = "off"
        /\ c2bRead = <<>> /\ c2bWritten = <<>>
        /\ b2cRead = <<>> /\ b2cWritten = <<>>
        /\ bkSock = "none"
        /\ cliSock \in {"relay_closed", "client_closed"}

\* The connect failed while a client message was already waiting.
C3_Witness ==
    /\ WsConnectFailed
    /\ cliIn # <<>>
    /\ cliSock = "relay_closed"

\* C4: for each pump, what it wrote to its destination is a prefix of what it
\* read from its source: FIFO, payload unchanged, nothing duplicated,
\* reordered or skipped.
C4_PumpsRelayPrefix ==
    /\ IsPrefix(c2bWritten, c2bRead)
    /\ IsPrefix(b2cWritten, b2cRead)

\* Both pumps relayed two different messages.
C4_Witness ==
    /\ c2bWritten = <<"m2", "m1">>
    /\ b2cWritten = <<"m1", "m2">>

\* C5: the outbound request has no host, content-length or transfer-encoding
\* header (case-insensitive) and every other inbound header line is passed
\* through with its value unchanged.
C5_RequestHeadersPassThrough ==
    fwdPc = "sending" =>
        /\ \A j \in DOMAIN upstream.headers :
              Lower(upstream.headers[j][1])
                  \notin {"host", "content-length", "transfer-encoding"}
        /\ \A ix \in DOMAIN req.headers :
              Lower(req.headers[ix][1])
                  \notin {"host", "content-length", "transfer-encoding"}
              => \E j \in DOMAIN upstream.headers :
                    /\ Lower(upstream.headers[j][1]) = Lower(req.headers[ix][1])
                    /\ upstream.headers[j][2] = req.headers[ix][2]

\* C6: the headers handed back to the client have no content-encoding,
\* transfer-encoding or content-length of the backend (case-insensitive) and
\* every other backend response header line is passed through unchanged.
C6_ResponseHeadersPassThrough ==
    (fwdPc = "returned" /\ outcome = "response") =>
        /\ \A j \in DOMAIN resp.headers :
              Lower(resp.headers[j][1])
                  \notin {"content-encoding", "transfer-encoding", "content-length"}
        /\ \A ix \in DOMAIN bkResp.headers :
              Lower(bkResp.headers[ix][1])
                  \notin {"content-encoding", "transfer-encoding", "content-length"}
              => \E j \in DOMAIN resp.headers :
                    /\ Lower(resp.headers[j][1]) = Lower(bkResp.headers[ix][1])
                    /\ resp.headers[j][2] = bkResp.headers[ix][2]

\* C7, as claimed: a response built from a backend response has no
\* content-length, transfer-encoding, content-encoding or host header.
C7_NoHopByHopNorHost ==
    (fwdPc = "returned" /\ outcome = "response") =>
        \A j \in DOMAIN resp.headers :
            Lower(resp.headers[j][1])
                \notin {"content-length", "transfer-encoding", "content-encoding", "host"}

\* C7, amended: a response built from a backend response has no
\* content-length, transfer-encoding or content-encoding header of the
\* backend; a host header of the backend is kept.
C7_NoStrippedResponseHeader ==
    (fwdPc = "returned" /\ outcome = "response") =>
        /\ \A j \in DOMAIN resp.headers :
              Lower(resp.headers[j][1])
                  \notin {"content-length", "transfer-encoding", "content-encoding"}
        /\ \A ix \in DOMAIN bkResp.headers :
              Lower(bkResp.headers[ix][1]) = "host"
              => \E j \in DOMAIN resp.headers : Lower(resp.headers[j][1]) = "host"

\* The backend sent content-length and host; only host came through.
C7_Witness ==
    /\ fwdPc = "returned"
    /\ outcome = "response"
    /\ bkResp.headers = << <<"Content-Length", "v1">>, <<"host", "v2">> >>
    /\ resp.headers = << <<"host", "v2">> >>

\* C8: for a method other than POST, PUT, PATCH the inbound body is not read
\* and no body goes upstream; for POST, PUT, PATCH the body sent upstream is
\* the inbound body.
C8_BodyOnlyForBodyMethods ==
    /\ fwdPc = "body" => req.method \in {"POST", "PUT", "PATCH"}
    /\ call.method \in {"GET", "DELETE", "OPTIONS"} => ~bodyRead
    /\ fwdPc = "sending" =>
          IF req.method \in {"POST", "PUT", "PATCH"}
          THEN bodyRead /\ upstream.content = req.body
          ELSE ~bodyRead /\ upstream.content = None

\* A DELETE that came with a body went upstream without one.
C8_Witness ==
    /\ fwdPc = "sending"
    /\ req.method = "DELETE"
    /\ req.body = "b1"
    /\ upstream.content = None

C10_AlwaysReturnsResponse ==
    /\ fwdPc # "raised"
    /\ fwdPc = "returned" => resp.status \in BackendStatuses \cup {503, 500}

\* C11: a call of the forwarder issues one outbound request when it reaches
\* the send and never a second one: none before the send nor when reading the
\* body failed, exactly one while the request is out and after the call
\* returned, whether with the backend's response, a 503 or a 500, for every
\* method.
C11_OneAttemptPerCall ==
    /\ attempts <= 1
    /\ fwdPc \in {"idle", "body", "raised"} => attempts = 0
    /\ fwdPc \in {"sending", "waiting", "returned"} => attempts = 1

C11_Witness ==
    /\ fwdPc = "returned"
    /\ call.method = "POST"
    /\ outcome = "ConnectError"
    /\ resp.status = 503
    /\ attempts = 1

\* C12: whatever status the backend answers with, the response returned to the
\* client has that status and the backend's body; a backend-produced failure
\* status is not rewritten into the proxy's own 503 or 500.
C12_StatusAndBodyPassThrough ==
    (fwdPc = "returned" /\ outcome = "response")
        => /\ resp.status = bkResp.status
           /\ resp.content = bkResp.content
           /\ resp.json = None

C12_Witness ==
    /\ fwdPc = "returned"
    /\ outcome = "response"
    /\ bkResp.status = 503
    /\ resp.status = 503
    /\ resp.content = bkResp.content

\* C13: a call that repeats an earlier call, same method, path and query, and
\* meets the same backend behaviour ends with the same response as the earlier
\* one; in particular a GET repeated against an unreachable backend yields 503
\* both times with the same error body.
C13_SameCallSameResponse ==
    (/\ prev # NoPrev
     /\ fwdPc = "returned"
     /\ prev.call = call
     /\ prev.outcome = outcome
     /\ prev.bkResp = bkResp)
        => /\ prev.resp = resp
           /\ outcome = "ConnectError" => (resp.status = 503 /\ prev.resp.status = 503)

C13_Witness ==
    /\ prev # NoPrev
    /\ fwdPc = "returned"
    /\ call.method = "GET"
    /\ prev.call = call
    /\ prev.outcome = "ConnectError"
    /\ outcome = "ConnectError"
    /\ prev.resp.status = 503
    /\ prev.resp = resp

\* C14: the outbound request goes to the backend base URL followed by the
\* prefixed path and, when the inbound query string is not empty, by "?" and
\* the query string exactly as it was received.
C14_QueryStringVerbatim ==
    fwdPc = "sending"
        => target = TS_BACKEND_URL \o "/api/" \o call.path
                    \o (IF call.query = "" THEN "" ELSE "?" \o call.query)

\* The probe loop of start_ts_backend is running.
Probing == lifePc \in {"sleep", "probe"}

\* start_ts_backend has just returned.
ProbeReturned == lifePc = "started"

\* A status of the 2xx class.
SuccessStatus(st) == st >= 200 /\ st < 300

C16_ProbeTerminates ==
    /\ [](/\ sleeps <= MaxAttempts
          /\ probeAttempts <= sleeps
          /\ (ProbeReturned /\ probeResult = "False")
                => (sleeps = MaxAttempts /\ probeAttempts = MaxAttempts))
    /\ <>(\/ lifePc = "failed"
          \/ ProbeReturned /\ probeResult = "True"
          \/ ProbeReturned /\ probeResult = "False" /\ sleeps = MaxAttempts)

C16_Witness ==
    /\ ProbeReturned
    /\ probeResult = "False"
    /\ child = "starting"
    /\ lastProbe.exc = "ReadTimeout"
    /\ sleeps = MaxAttempts
    /\ probeAttempts = MaxAttempts
    /\ waitLogs = 4

\* C17: when the backend's health endpoint answers 200 from the k-th probe
\* cycle on, the probe returns true with exactly k attempts and k waits made,
\* not MaxAttempts; with the backend ready the probe makes no attempt beyond
\* the k-th.
C17_ReturnsAtCycleK ==
    /\ (ProbeReturned /\ probeResult = "True")
          => /\ readyAt \in 1..MaxAttempts
             /\ probeAttempts = readyAt
             /\ sleeps = readyAt
    /\ (Probing /\ child = "ready") => probeAttempts <= readyAt

C17_Witness ==
    /\ ProbeReturned
    /\ probeResult = "True"
    /\ readyAt = 3
    /\ probeAttempts = 3
    /\ sleeps = 3

\* C18: while a handler handles a request or a WebSocket session the startup
\* is over: the child was launched and the readiness probe has returned.
\* No inbound traffic is handled before.
C18_NoTrafficBeforeProbeReturned ==
    (fwdPc # "idle" \/ wsPc # "idle")
        => /\ lifePc \in {"serving", "stopping", "stopped"}
           /\ spawns = 1
           /\ ts_process # None
           /\ probeResult \in {"True", "False"}

C18_Witness ==
    /\ fwdPc = "returned"
    /\ outcome = "response"
    /\ wsPc = "pumping"
    /\ probeResult = "True"
    /\ spawns = 1

\* C19: a probe that returned false does not fail the startup: lifespan
\* yields, the application serves and takes requests, and a forward that
\* finds the backend unreachable is answered 503.
C19_DegradedStartServes ==
    /\ probeResult = "False"
          => (lifePc \in {"started", "serving", "stopping", "stopped"} /\ startupExc = None)
    /\ (probeResult = "False" /\ ProbeReturned) => ENABLED LifespanYield
    /\ (probeResult = "False" /\ Serving /\ fwdPc = "idle") => ENABLED FwdEnterBare
    /\ (probeResult = "False" /\ fwdPc = "returned" /\ outcome = "ConnectError")
          => resp.status = 503

C19_Witness ==
    /\ probeResult = "False"
    /\ Serving
    /\ child # "ready"
    /\ fwdPc = "returned"
    /\ outcome = "ConnectError"
    /\ resp.status = 503

\* C20: when launching the child fails at spawn time the startup ends with
\* that error: no process handle, no wait and no probe attempt, the
\* application does not serve and handles no request; an application that
\* serves has launched its child.
C20_LaunchFailureIsFatal ==
    /\ startupExc # None
          => /\ lifePc = "failed"
             /\ ts_process = None
             /\ spawns = 0
             /\ sleeps = 0
             /\ probeAttempts = 0
             /\ probeResult = None
             /\ fwdPc = "idle"
             /\ wsPc = "idle"
             /\ ~ENABLED (lifespan \/ proxy_api_bare \/ RelayQuiet)
    /\ Serving => (ts_process # None /\ spawns = 1)

C20_Witness ==
    /\ lifePc = "failed"
    /\ startupExc = "FileNotFoundError"
    /\ ts_process = None

\* C21: the shutdown sends the child the termination signal first; the kill
\* signal is sent exactly when the wait of 5 s ended with the child not
\* exited, and after the termination signal; a child that exits within the
\* wait is not killed; the shutdown runs with no handler running and raises
\* nothing, so no client sees it.
C21_TerminateThenKillOnTimeout ==
    /\ signals \in {<<>>, <<"TERM">>, <<"TERM", "KILL">>}
    /\ lifePc = "stopping"
          => /\ waitEnd = None
             /\ signals = (IF childAtStop = "exited" THEN <<>> ELSE <<"TERM">>)
             /\ child = "exited" => (ENABLED ShutdownWaitReturns
                                     /\ ~ENABLED ShutdownWaitTimesOut)
             /\ child # "exited" => ENABLED ShutdownWaitTimesOut
    /\ (lifePc = "stopped" /\ stops = 1)
          => /\ waitEnd \in {"returned", "TimeoutExpired"}
             /\ waitEnd = "TimeoutExpired" <=> signals = <<"TERM", "KILL">>
             /\ waitEnd = "returned" => signals \in {<<>>, <<"TERM">>}
    /\ lifePc \in {"stopping", "stopped"} => (NoHandlerRuns /\ startupExc = None)

C21_Witness ==
    /\ lifePc = "stopped"
    /\ childAtStop = "ready"
    /\ waitEnd = "TimeoutExpired"
    /\ signals = <<"TERM", "KILL">>
    /\ fwdPc = "returned"
    /\ outcome = "response"

\* C22: a shutdown that finds the child process already exited is a no-op
\* for the child: no termination signal and no kill signal is sent, the wait
\* returns at once and nothing is raised.
C22_StopOfExitedChildIsNoOp ==
    (stops >= 1 /\ childAtStop = "exited")
        => /\ signals = <<>>
           /\ waitEnd \in {None, "returned"}
           /\ startupExc = None
           /\ lifePc \in {"stopping", "stopped"}
           /\ lifePc = "stopping" => (ENABLED ShutdownWaitReturns
                                      /\ ~ENABLED ShutdownWaitTimesOut)

C22_Witness ==
    /\ lifePc = "stopped"
    /\ stops = 1
    /\ childAtStop = "exited"
    /\ signals = <<>>
    /\ waitEnd = "returned"

\* C23: in one lifetime of the application at most one child process is
\* spawned and it is stopped at most once; the handle exists exactly when the
\* process was spawned; the stop comes after the start is over, never during
\* it; while handlers run the count of spawned processes stays one.
C23_OneChildPerLifetime ==
    /\ spawns <= 1
    /\ stops <= 1
    /\ ts_process # None <=> spawns = 1
    /\ lifePc = "init" => spawns = 0
    /\ lifePc \in {"init", "sleep", "probe", "started", "failed"}
          => (stops = 0 /\ signals = <<>>)
    /\ stops = 1 => (spawns = 1 /\ lifePc \in {"stopping", "stopped"})
    /\ (fwdPc # "idle" \/ wsPc # "idle") => spawns = 1

C23_Witness ==
    /\ lifePc = "stopped"
    /\ spawns = 1
    /\ stops = 1
    /\ fwdPc = "returned"
    /\ wsPc = "done"

\* C24: a step of the forwarder, of health, of root or of a relay session
\* leaves the process handle, the count of spawned processes, the phase of the
\* lifespan and everything the shutdown does (signals sent included)
\* unchanged, in every interleaving of the handlers.
C24_HandlersLeaveHandleAlone ==
    [][(fwdVars' # fwdVars \/ wsVars' # wsVars \/ localVars' # localVars)
          => /\ UNCHANGED <<ts_process, spawns, lifePc, child>>
             /\ UNCHANGED stopVars]_vars

C24_Witness ==
    /\ ts_process = "proc"
    /\ spawns = 1
    /\ signals = <<>>
    /\ fwdPc = "returned"
    /\ healthPc = "returned"
    /\ "error" \in DOMAIN healthResp.body.ts_backend
    /\ rootResp = RootResponse
    /\ wsPc = "done"

\* How the backend answered the health request of the handler health.
HealthGotPayload == lastHealth.status = 200 /\ Parsable(lastHealth.body)

C26_RootTouchesNoBackend ==
    /\ [](rootResp \in {NoResp, RootResponse})
    /\ [][rootResp' # rootResp
             => /\ rootResp' = RootResponse
                /\ UNCHANGED <<fwdVars, wsVars, lifeVars, stopVars>>
                /\ UNCHANGED <<healthPc, healthAttempts, lastHealth, healthResp>>]_vars

C26_Witness ==
    /\ rootResp = RootResponse
    /\ child = "exited"
    /\ fwdPc = "idle"
    /\ healthPc = "idle"
    /\ healthAttempts = 0
    /\ attempts = 0

\* Outbound connections a relay session tried to open.
WsConnects == {ix \in DOMAIN wsOps : wsOps[ix] \in {"connect", "connect_failed"}}

\* C27: a relay session connects to the backend path with the name of the
\* path it was accepted on, /api/ws to /api/ws and /ws to /ws, and opens at
\* most one outbound connection.
C27_SamePathOneConnection ==
    /\ wsPath \in {"", "/api/ws", "/ws"}
    /\ wsBackendUrl # "" => wsBackendUrl = "ws://127.0.0.1:8002" \o wsPath
    /\ Cardinality(WsConnects) <= 1
    /\ bkSock # "none" => Cardinality(WsConnects) = 1

C27_Witness ==
    /\ wsPc = "pumping"
    /\ wsPath = "/ws"
    /\ wsBackendUrl = "ws://127.0.0.1:8002/ws"
    /\ b2cWritten # <<>>

\* The session states of the specification: CONNECTING 1, ACTIVE 2,
\* CLOSING 3, CLOSED 4 (0: no session yet).
SessionRank(pc) ==
    CASE pc = "idle" -> 0
      [] pc = "connecting" -> 1
      [] pc = "pumping" -> 2
      [] pc = "releasing" -> 3
      [] pc = "done" -> 4

SessionClosed ==
    /\ wsPc = "done"
    /\ cliSock # "open"
    /\ bkSock # "open"
    /\ c2bPc \in {"off", "done"}
    /\ b2cPc \in {"off", "done"}

\* C28 (forward part): a session never moves backwards through its states.
C28_SessionMovesForward ==
    [][SessionRank(wsPc') >= SessionRank(wsPc)]_vars

\* C28: a relay session only moves forward through CONNECTING, ACTIVE,
\* CLOSING, CLOSED, and once either peer has closed the session eventually
\* is CLOSED with both sockets closed and both pumps stopped.
C28_SessionEventuallyClosed ==
    /\ [][SessionRank(wsPc') >= SessionRank(wsPc)]_vars
    /\ (cliSock = "client_closed" \/ bkSock = "backend_closed") ~> SessionClosed

\* C29: handlers do not block one another: whatever the forwarder and a
\* relay session wait for, health can be entered and, once its request is
\* out, completed, root answers, the forwarder takes a call when it has none
\* and goes on when it has one, and a WebSocket session can be accepted.
C29_HandlersDoNotBlockEachOther ==
    /\ healthPc = "idle" => ENABLED HealthEnter
    /\ healthPc = "waiting" => (ENABLED HealthAnswer \/ ENABLED HealthRaises)
    /\ ENABLED root
    /\ fwdPc = "idle" => ENABLED FwdEnterBare
    /\ fwdPc = "body" => ENABLED FwdBodyRead
    /\ fwdPc = "sending" => (ENABLED FwdBackendTakes \/ ENABLED FwdConnectFails)
    /\ fwdPc = "waiting" => (ENABLED FwdResponseBare \/ ENABLED FwdReadFails)
    /\ wsPc = "idle" => (ENABLED websocket_proxy_api /\ ENABLED websocket_proxy_root)

C29_Witness ==
    /\ fwdPc = "waiting"
    /\ wsPc = "pumping"
    /\ c2bPc = "recv"
    /\ b2cPc = "recv"
    /\ healthPc = "returned"
    /\ rootResp = RootResponse

\* C30: a pump holds a message exactly between its read and its send, one at
\* most; it reads the next message only when it holds none, and towards the
\* backend the messages read are at most one ahead of the messages written.
C30_OneMessageInFlight ==
    /\ [](/\ c2bPc = "send" <=> c2bMsg # NoMsg
          /\ b2cPc = "send" <=> b2cMsg # NoMsg
          /\ Len(c2bRead) <= Len(c2bWritten) + 1
          /\ cliSock = "open" => Len(b2cRead) <= Len(b2cWritten) + 1)
    /\ [][/\ c2bRead' # c2bRead => (c2bPc = "recv" /\ c2bMsg = NoMsg)
          /\ b2cRead' # b2cRead => (b2cPc = "recv" /\ b2cMsg = NoMsg)]_vars

C30_Witness ==
    /\ c2bPc = "send"
    /\ b2cPc = "send"
    /\ Len(c2bRead) = 2
    /\ Len(c2bWritten) = 1
    /\ Len(b2cRead) = 2
    /\ Len(b2cWritten) = 1

\* C31: a relay session leaves its pumping phase only when both pumps have
\* ended; a pump that ends by itself leaves the other pump where it is and
\* closes neither socket, and while the session pumps the relay has closed
\* neither socket.
C31_GatherWaitsForBothPumps ==
    /\ [](/\ wsPc \in {"idle", "connecting"} => (c2bPc = "off" /\ b2cPc = "off")
          /\ wsPc = "releasing" => (c2bPc = "done" /\ b2cPc = "done")
          /\ (wsPc = "done" /\ bkSock # "none") => (c2bPc = "done" /\ b2cPc = "done")
          /\ wsPc = "pumping" => (cliSock # "relay_closed" /\ bkSock # "relay_closed"))
    /\ [][/\ (wsPc = "pumping" /\ wsPc' # "pumping")
               => (c2bPc = "done" /\ b2cPc = "done")
          /\ (c2bPc # "done" /\ c2bPc' = "done")
               => (b2cPc' = b2cPc /\ wsPc' = wsPc /\ cliSock' = cliSock /\ bkSock' = bkSock)
          /\ (b2cPc # "done" /\ b2cPc' = "done")
               => (c2bPc' = c2bPc /\ wsPc' = wsPc /\ cliSock' = cliSock /\ bkSock' = bkSock)]_vars

C31_Witness ==
    /\ wsPc = "pumping"
    /\ c2bPc = "done"
    /\ b2cPc = "recv"
    /\ cliSock = "client_closed"
    /\ bkSock = "open"
    /\ b2cWritten # <<>>

\* The application has been started: the yield of lifespan is behind.
Yielded == lifePc \in {"serving", "stopping", "stopped"}

\* C32: the child process is never restarted.  After the startup the spawn
\* count is one and stays, the handle stays, and no probe attempt or probe
\* sleep is made again; the child's own exit leaves the application serving,
\* with the forwarder and health still taking calls; a forward whose outbound
\* request goes out after the exit returns 503 and a health call that ends
\* after the exit reports an error object with status 200.
C32_ChildNeverRestarted ==
    /\ [](/\ Yielded => (spawns = 1 /\ ts_process # None /\ probeAttempts = 0
                         /\ sleeps = 0 /\ lifePc \notin {"sleep", "probe"})
          /\ (Serving /\ child = "exited" /\ fwdPc = "idle") => ENABLED FwdEnterBare
          /\ (Serving /\ child = "exited" /\ healthPc = "idle") => ENABLED HealthEnter
          /\ (child = "exited" /\ fwdPc = "sending")
               => (~ENABLED FwdBackendTakes /\ ENABLED FwdConnectFails))
    /\ [][/\ Yielded => (/\ spawns' = spawns
                         /\ ts_process' = ts_process
                         /\ probeAttempts' = probeAttempts
                         /\ probeResult' = probeResult)
          /\ child = "exited" => child' = "exited"
          /\ (child # "exited" /\ child' = "exited") => lifePc' = lifePc
          /\ (child = "exited" /\ fwdPc = "sending" /\ fwdPc' # "sending")
               => (fwdPc' = "returned" /\ resp'.status = 503)
          /\ (child = "exited" /\ healthPc = "waiting" /\ healthPc' # "waiting")
               => (/\ healthPc' = "returned"
                   /\ healthResp'.status = 200
                   /\ DOMAIN healthResp'.body.ts_backend = {"error"})]_vars

C32_Witness ==
    /\ Serving
    /\ probeResult = "True"
    /\ child = "exited"
    /\ spawns = 1
    /\ fwdPc = "returned"
    /\ outcome = "ConnectError"
    /\ resp.status = 503
    /\ healthPc = "returned"
    /\ DOMAIN healthResp.body.ts_backend = {"error"}

\* The response of a call that returned, as a function of the call line and
\* of what the backend did, and of nothing else.
ForwardedResponse ==
    IF outcome = "response"
    THEN ProxyResponse(bkResp)
    ELSE ErrorResponse(outcome, BuildUrl(call.path, call.query))

\* C33: forwarding is not gated by readiness.  Whatever the probe returned,
\* the serving application takes a call, the call gets through to a listening
\* backend, and the response is determined by the call and by what the
\* backend did; no step of the forwarder changes with the probe's result.
C33_ForwardingNotGatedByReadiness ==
    /\ (Serving /\ fwdPc = "idle") => ENABLED FwdEnterBare
    /\ fwdPc = "body" => (ENABLED FwdBodyRead /\ ENABLED FwdBodyDisconnect)
    /\ fwdPc = "sending" => ENABLED FwdConnectFails
    /\ (fwdPc = "sending" /\ BackendListening) => ENABLED FwdBackendTakes
    /\ fwdPc = "waiting" => (ENABLED FwdResponseBare /\ ENABLED FwdReadFails)
    /\ fwdPc \in {"sending", "waiting", "returned"}
          => target = BuildUrl(call.path, call.query)
    /\ fwdPc = "returned" => resp = ForwardedResponse

C33_Witness ==
    /\ probeResult = "False"
    /\ Serving
    /\ child = "ready"
    /\ fwdPc = "returned"
    /\ outcome = "response"
    /\ bkResp.status = 200
    /\ resp = ProxyResponse(bkResp)

\* A step in which a probe attempt is answered with a status other than 200.
ProbeAnsweredNot200 ==
    /\ lifePc = "probe"
    /\ lifePc' # "probe"
    /\ lastProbe'.exc = None
    /\ lastProbe'.status # 200

\* A step in which a probe attempt raises.
ProbeAttemptRaised ==
    /\ lifePc = "probe"
    /\ lifePc' # "probe"
    /\ lastProbe'.exc # None

\* How the loop goes on after an attempt that did not make the probe return
\* true: the next attempt, or false after the last one.
ProbeGoesOn ==
    IF i + 1 < MaxAttempts
    THEN lifePc' = "sleep" /\ i' = i + 1 /\ probeResult' = None
    ELSE lifePc' = "started" /\ i' = i /\ probeResult' = "False"

\* C34: only status 200 counts as ready.  An attempt answered with any other
\* status goes the way of an attempt that raised: the loop goes on with the
\* next attempt and after the last attempt the probe returns false; the probe
\* returns true on a 200 only, and a probe that returns false after answers
\* that were not 200 has made all its attempts.
C34_Only200CountsAsReady ==
    /\ [](/\ (ProbeReturned /\ probeResult = "True") => lastProbe.status = 200
          /\ (ProbeReturned /\ probeResult = "False")
                => (lastProbe.status # 200 /\ probeAttempts = MaxAttempts)
          /\ (Probing /\ probeAttempts > 0) => lastProbe.status # 200)
    /\ [][/\ ProbeAnsweredNot200 => ProbeGoesOn
          /\ ProbeAttemptRaised => ProbeGoesOn
          /\ (lifePc = "probe" /\ lastProbe'.status = 200)
                => (lifePc' = "started" /\ probeResult' = "True")]_vars

C34_Witness ==
    /\ ProbeReturned
    /\ probeResult = "False"
    /\ child = "starting"
    /\ lastProbe.status = 204
    /\ lastProbe.exc = None
    /\ probeAttempts = MaxAttempts

\* The positions of an operation in the handler's record of socket operations.
WsOpsOf(op) == {ix \in DOMAIN wsOps : wsOps[ix] = op}

\* C35: a relay handler that has returned attempted the close of the inbound
\* socket exactly once, as its last operation: straight after the failed
\* connect, or after the release of the outbound connection, which by then is
\* open no more; before its return it attempted none.  The close of a socket
\* the client has closed already leaves the socket as it is and the handler
\* returns all the same.
C35_InboundClosedOnceAfterRelease ==
    /\ wsPc \in {"idle", "connecting", "pumping", "releasing", "done"}
    /\ wsPc # "done" => WsOpsOf("close") = {}
    /\ wsPc = "done"
          => /\ WsOpsOf("close") = {Len(wsOps)}
             /\ cliSock \in {"relay_closed", "client_closed"}
             /\ bkSock # "open"
             /\ \/ /\ wsOps = <<"accept", "connect_failed", "close">>
                   /\ bkSock = "none"
                \/ /\ wsOps = <<"accept", "connect", "release", "close">>
                   /\ bkSock \in {"relay_closed", "backend_closed"}
    /\ wsPc = "releasing" => ENABLED (websocket_proxy_api \/ websocket_proxy_root)
    /\ wsPc = "connecting" => ENABLED (websocket_proxy_api \/ websocket_proxy_root)

C35_Witness ==
    /\ wsPc = "done"
    /\ wsOps = <<"accept", "connect", "release", "close">>
    /\ cliSock = "client_closed"
    /\ bkSock = "relay_closed"
    /\ c2bWritten # <<>>

\* One state machine of a relay handler, written without a path: the step
\* from each handler state, the socket operations it adds and what it does
\* to the sockets and the pumps.
SessionStep ==
    /\ UNCHANGED <<cliIn, bkIn, c2bMsg, b2cMsg, c2bRead, c2bWritten, b2cRead, b2cWritten>>
    /\ \/ /\ wsPc = "idle"
          /\ wsPc' = "connecting"
          /\ wsOps' = Append(wsOps, "accept")
          /\ cliSock' = "open"
          /\ UNCHANGED <<bkSock, c2bPc, b2cPc>>
       \/ /\ wsPc = "connecting"
          /\ wsPc' = "pumping"
          /\ wsOps' = Append(wsOps, "connect")
          /\ bkSock' = "open"
          /\ c2bPc' = "recv"
          /\ b2cPc' = "recv"
          /\ UNCHANGED cliSock
       \/ /\ wsPc = "connecting"
          /\ wsPc' = "done"
          /\ wsOps' = wsOps \o <<"connect_failed", "close">>
          /\ cliSock' = (IF cliSock = "open" THEN "relay_closed" ELSE cliSock)
          /\ UNCHANGED <<bkSock, c2bPc, b2cPc>>
       \/ /\ wsPc = "pumping"
          /\ c2bPc = "done"
          /\ b2cPc = "done"
          /\ wsPc' = "releasing"
          /\ UNCHANGED <<wsOps, cliSock, bkSock, c2bPc, b2cPc>>
       \/ /\ wsPc = "releasing"
          /\ wsPc' = "done"
          /\ wsOps' = wsOps \o <<"release", "close">>
          /\ bkSock' = (IF bkSock = "open" THEN "relay_closed" ELSE bkSock)
          /\ cliSock' = (IF cliSock = "open" THEN "relay_closed" ELSE cliSock)
          /\ UNCHANGED <<c2bPc, b2cPc>>

\* The handler of the session at hand has a step to take.
SessionStepDue ==
    \/ wsPc \in {"connecting", "releasing"}
    \/ wsPc = "pumping" /\ c2bPc = "done" /\ b2cPc = "done"

\* C36: the two relay handlers are one state machine.  Every step of either
\* handler is a step of the same machine, which reads neither path nor URL; each handler takes its step exactly where the machine
\* has one; and the handlers differ in the path they note and the backend URL
\* they connect to, /api/ws for the one and /ws for the other.
C36_HandlersAreOneStateMachine ==
    /\ [](/\ (Serving /\ wsPc = "idle")
                => (ENABLED websocket_proxy_api /\ ENABLED websocket_proxy_root)
          /\ wsPath = "/api/ws"
                => /\ ENABLED websocket_proxy_api <=> SessionStepDue
                   /\ ~ENABLED websocket_proxy_root
                   /\ wsBackendUrl \in {"", "ws://127.0.0.1:8002/api/ws"}
          /\ wsPath = "/ws"
                => /\ ENABLED websocket_proxy_root <=> SessionStepDue
                   /\ ~ENABLED websocket_proxy_api
                   /\ wsBackendUrl \in {"", "ws://127.0.0.1:8002/ws"})
    /\ [][/\ websocket_proxy_api => (SessionStep /\ wsPath' = "/api/ws")
          /\ websocket_proxy_root => (SessionStep /\ wsPath' = "/ws")
          /\ wsPath' # wsPath => (wsPc = "idle" /\ wsPc' = "connecting")]_vars

C36_Witness ==
    /\ wsPath = "/ws"
    /\ wsPc = "done"
    /\ wsOps = <<"accept", "connect", "release", "close">>
    /\ wsBackendUrl = "ws://127.0.0.1:8002/ws"
    /\ c2bWritten # <<>>
    /\ b2cWritten # <<>>

\* httpx.AsyncClient objects that are open.
OpenClients == fwdClients + healthClients + probeClients

\* Calls of the forwarder and of health and probe attempts that have begun
\* and not yet ended.
CallsInFlight ==
    (IF fwdPc \in {"body", "sending", "waiting"} THEN 1 ELSE 0)
    + (IF healthPc = "waiting" THEN 1 ELSE 0)
    + (IF lifePc = "probe" THEN 1 ELSE 0)

\* C37: every outbound HTTP client is closed before its call returns, on the
\* success path and on every failure path: a call has one open client exactly
\* while it is at its outbound request and none before and after, so that the
\* open clients are never more than the calls in flight and none is open when
\* no call is in flight.
C37_ClientsClosedWithTheirCall ==
    /\ fwdClients = (IF fwdPc \in {"sending", "waiting"} THEN 1 ELSE 0)
    /\ healthClients = (IF healthPc = "waiting" THEN 1 ELSE 0)
    /\ probeClients = (IF lifePc = "probe" THEN 1 ELSE 0)
    /\ OpenClients <= CallsInFlight
    /\ CallsInFlight = 0 => OpenClients = 0

C37_Witness ==
    /\ fwdPc = "returned"
    /\ outcome = "ReadTimeout"
    /\ fwdClients = 0
    /\ healthPc = "waiting"
    /\ healthClients = 1
    /\ OpenClients = 1

\* C37 as the specification words it: in every state the number of open
\* outbound HTTP clients equals the number of calls in flight, and is zero
\* when the edge is idle.
C37_OpenClientsEqualCallsInFlight ==
    /\ OpenClients = CallsInFlight
    /\ CallsInFlight = 0 => OpenClients = 0

\* C38: at shutdown the database client is closed on every path, after the
\* child has been handled.  client.close() is called when the wait for the
\* child is over and not before, whether the wait returned or timed out and
\* the child was killed, or no handle was there to wait for; a shutdown that
\* has begun reaches the close and completes.
C38_DbClosedAtShutdown ==
    /\ [](/\ lifePc = "stopped" => dbClosed
          /\ dbClosed => lifePc = "stopped"
          /\ (dbClosed /\ ts_process # None)
                => /\ stops = 1
                   /\ waitEnd \in {"returned", "TimeoutExpired"}
                   /\ waitEnd = "returned" => child = "exited"
                   /\ waitEnd = "TimeoutExpired" => signals = <<"TERM", "KILL">>
          /\ (dbClosed /\ ts_process = None) => (stops = 0 /\ signals = <<>>)
          /\ lifePc = "stopping"
                => (ENABLED ShutdownWaitReturns \/ ENABLED ShutdownWaitTimesOut))
    /\ (lifePc = "stopping") ~> (lifePc = "stopped" /\ dbClosed)

C38_Witness ==
    /\ lifePc = "stopped"
    /\ dbClosed
    /\ probeResult = "False"
    /\ childAtStop = "starting"
    /\ waitEnd = "TimeoutExpired"
    /\ signals = <<"TERM", "KILL">>
====
